---- MODULE Spec2Model ----
(***************************************************************************)
(* Server-side user authentication of the dropbear SSH daemon as found in  *)
(* this repository: the two auth.c translation units (src/unnamed/part_000  *)
(* and src/unnamed/part_001).  One session (ses) handles a stream of        *)
(* SSH_MSG_USERAUTH_REQUEST packets; the handlers are operators over the    *)
(* session record so that the same code drives the single-session          *)
(* specification, the responder harness and the two-run specification.     *)
(* checkusername and pty_allocate (src/unnamed/part_002, src/src/sshpty.c)  *)
(* have specifications of their own that call them directly.               *)
(***************************************************************************)
EXTENDS Integers, Sequences, FiniteSets, TLC

VARIABLES
    build,      \* which auth.c is linked and the compile-time switches
    svr_opts,   \* run-time options that never change after start-up
    ses,        \* session state: ses.authstate.*, svr_opts.banner, output
    payload,    \* ses.payload: the request packet being handled (or NoPacket)
    nreq,       \* number of requests handled so far
    ncounted,   \* number of send_msg_userauth_failure calls with incrfail
    ses2,       \* second run of the two-run specification
    payload2,   \* request packet of the second run
    op,         \* the handler that ran last, its arguments and its result
    pty         \* descriptors of the process and the last pty_allocate()

vars == <<build, svr_opts, ses, payload, nreq, ncounted, ses2, payload2, op,
          pty>>

-----------------------------------------------------------------------------
(* Bounds of the model *)

\* requests one session receives
MaxRequests == 2

\* largest maxauthtries (-T) explored
MaxTries == 3

-----------------------------------------------------------------------------
(* C strings: sequences of byte values, NUL = 0 *)

NUL == 0
NULL == "NULL"

\* a NULL char* where the model holds byte strings
NULLSTR == <<-1>>
NoPacket == "NoPacket"

DROPBEAR_SUCCESS == "DROPBEAR_SUCCESS"
DROPBEAR_FAILURE == "DROPBEAR_FAILURE"

\* the value of pty where no pty is asked for
NoPty == "NoPty"

\* the value of op before any handler ran, and its fields: the handler's
\* name, the arguments of send_msg_userauth_failure, the argument and the
\* return value of checkusername and the ses.authstate.username it found
NoOp ==
    [name |-> "none", partial |-> 0, incrfail |-> 0,
     username |-> NULLSTR, ret |-> NULL, bound |-> NULLSTR]

\* "ssh-connection"
SSH_SERVICE_CONNECTION == <<115,115,104,45,99,111,110,110,101,99,116,105,111,110>>
SSH_SERVICE_CONNECTION_LEN == Len(SSH_SERVICE_CONNECTION)

AUTH_METHOD_PUBKEY == "publickey"
AUTH_METHOD_PASSWORD == "password"
AUTH_TYPE_PUBKEY == AUTH_METHOD_PUBKEY
AUTH_TYPE_PASSWORD == AUTH_METHOD_PASSWORD

\* the i-th char of the NUL-terminated buffer holding s (1-based); reading
\* stops at the terminator, so positions past it are never compared
CharAt(s, i) == IF i <= Len(s) THEN s[i] ELSE NUL

\* strlen(3): number of bytes before the first NUL
RECURSIVE StrlenFrom(_, _)
StrlenFrom(s, i) ==
    IF CharAt(s, i) = NUL THEN i - 1 ELSE StrlenFrom(s, i + 1)
strlen(s) == StrlenFrom(s, 1)

\* strncmp(3): compares at most n chars, stops after a NUL; <0, 0 or >0
RECURSIVE StrncmpFrom(_, _, _, _)
StrncmpFrom(a, b, n, i) ==
    IF i > n THEN 0
    ELSE IF CharAt(a, i) # CharAt(b, i) THEN CharAt(a, i) - CharAt(b, i)
    ELSE IF CharAt(a, i) = NUL THEN 0
    ELSE StrncmpFrom(a, b, n, i + 1)
strncmp(a, b, n) == StrncmpFrom(a, b, n, 1)

\* strcmp(3)
strcmp(a, b) == StrncmpFrom(a, b, Len(a) + Len(b) + 1, 1)

\* the C string a char* points to: the bytes before the first NUL
CString(s) == SubSeq(s, 1, strlen(s))

-----------------------------------------------------------------------------
(* Environment: the local account database, the shell list, the requests *)

\* user names (C strings)
U_root  == <<114,111,111,116>>
U_alice == <<97,108,105,99,101>>
U_bob   == <<98,111,98>>
U_carol == <<99,97,114,111,108>>
U_ghost == <<103,104,111,115,116>>
U_dave  == <<100,97,118,101>>

\* getpwnam(3) found no entry
NoAccount ==
    [pw_name |-> NULLSTR, pw_uid |-> -1, pw_gid |-> -1, pw_shell |-> NULL, gids |-> {}]

\* longest user name accepted (dropbear's sysoptions.h default)
MAX_USERNAME_LEN == 100

\* the failure delay, in ns
mindelay == 250000000
vardelay == 100000000

\* most groups check_group_membership makes room for (sysoptions.h default)
DROPBEAR_NGROUP_MAX == 1024

\* gid of the group logins are restricted to when -G is given
RestrictGid == 50

\* getpwnam(3) on the C string: the passwd entry, or NoAccount
getpwnam(name) ==
    CASE name = U_root  -> [pw_name |-> U_root,  pw_uid |-> 0,    pw_gid |-> 0,
                            pw_shell |-> "/bin/sh",       gids |-> {0}]
      [] name = U_alice -> [pw_name |-> U_alice, pw_uid |-> 1000, pw_gid |-> 1000,
                            pw_shell |-> "/bin/bash",     gids |-> {1000, RestrictGid}]
      [] name = U_bob   -> [pw_name |-> U_bob,   pw_uid |-> 1001, pw_gid |-> 1001,
                            pw_shell |-> "",              gids |-> {1001}]
      [] name = U_carol -> [pw_name |-> U_carol, pw_uid |-> 1002, pw_gid |-> 1002,
                            pw_shell |-> "/sbin/nologin", gids |-> {1002, RestrictGid}]
      [] name = U_dave  -> [pw_name |-> U_dave,  pw_uid |-> 1003, pw_gid |-> 1003,
                            pw_shell |-> "/bin/sh",       gids |-> 1..1100]
      [] OTHER          -> NoAccount

\* getusershell(3): the valid login shells
UserShells == {"/bin/sh", "/bin/bash"}

Usernames == {U_root, U_alice, U_bob, U_carol, U_ghost}

\* "al\0ce": five bytes on the wire, a NUL at the third
U_nul == <<97,108,0,99,101>>

\* MAX_USERNAME_LEN + 1 bytes: all 'a', and the same with a NUL at the third
U_long == [i \in 1..(MAX_USERNAME_LEN + 1) |-> 97]
U_long_nul == [i \in 1..(MAX_USERNAME_LEN + 1) |-> IF i = 3 THEN NUL ELSE 97]

\* service names a client may send
SVC_not_ssh_connection ==
    <<110,111,116,45>> \o SSH_SERVICE_CONNECTION              \* "not-ssh-connection"
SVC_same_len_other_bytes ==
    SubSeq(SSH_SERVICE_CONNECTION, 1, 13) \o <<88>>           \* "ssh-connectioX"
SVC_longer == SSH_SERVICE_CONNECTION \o <<50>>                \* "ssh-connection2"

ServiceNames ==
    {SSH_SERVICE_CONNECTION, SVC_not_ssh_connection, SVC_same_len_other_bytes,
     SVC_longer}

MethodNames == {AUTH_METHOD_PUBKEY, AUTH_METHOD_PASSWORD, "none"}

\* A SSH_MSG_USERAUTH_REQUEST packet as buf_getstring decodes it: each string
\* with its declared length.  credok tells what the external verifier of the
\* named method would answer for the method-specific fields that follow.
Requests ==
    [username: Usernames, servicename: ServiceNames,
     methodname: MethodNames, credok: BOOLEAN]

userlen(p) == Len(p.username)
servicelen(p) == Len(p.servicename)
methodlen(p) == Len(p.methodname)

-----------------------------------------------------------------------------
(* Start-up *)

\* The two auth.c of the repository
Variants == {"part_000", "part_001"}

Builds ==
    [variant: Variants,
     DROPBEAR_SVR_PUBKEY_AUTH: BOOLEAN,
     DROPBEAR_SVR_PASSWORD_AUTH: {TRUE},
     DROPBEAR_SVR_MULTIUSER: BOOLEAN,
     LP64: BOOLEAN]                \* long (suseconds_t) has 64 bits, else 32

Options ==
    [maxauthtries: 1..MaxTries,
     noauthpass: BOOLEAN,
     norootlogin: BOOLEAN,
     restrict_group: {NULL, "sshusers"}]

\* memset(&ses.authstate, 0, ...) and the authtypes of the linked auth.c
svr_authinitialise(b, o) ==
    [authdone |-> 0,
     failcount |-> 0,
     username |-> NULLSTR,
     checkusername_failed |-> 0,
     pw_name |-> NULLSTR,
     pw_uid |-> 0,
     pw_gid |-> 0,
     pw_shell |-> NULL,
     auth_starttime |-> [tv_sec |-> 0, tv_nsec |-> 0],
     authtypes |->
        IF b.variant = "part_000"
        THEN (IF b.DROPBEAR_SVR_PUBKEY_AUTH THEN {AUTH_TYPE_PUBKEY} ELSE {})
             \cup (IF b.DROPBEAR_SVR_PASSWORD_AUTH /\ ~o.noauthpass
                   THEN {AUTH_TYPE_PASSWORD} ELSE {})
        ELSE {}]

\* A new session: the authstate after svr_authinitialise plus the rest of
\* the per-connection process state the handlers touch.
NewSession(b, o, banner, euid) ==
    [authstate |-> svr_authinitialise(b, o),
     banner |-> banner,           \* svr_opts.banner # NULL
     euid |-> euid,               \* geteuid()
     connect_time |-> 1,          \* pre-auth watchdog armed
     allowprivport |-> 0,
     childpipe |-> "open",        \* svr_ses.childpipe
     nclose |-> 0,                \* m_close(svr_ses.childpipe) calls
     sent |-> <<>>,               \* packets handed to encrypt_packet()
     framed |-> <<>>,             \* authdone as encrypt_packet() saw it, per packet
     nlog |-> 0,                  \* dropbear_log(LOG_WARNING, ...) lines written
     nerr |-> 0,                  \* dropbear_log(LOG_ERR, ...) lines written
     delay |-> [tv_sec |-> 0, tv_nsec |-> 0],
                                  \* the time since auth_starttime the last
                                  \* counted failure measured
     rand_delay |-> 0,            \* rand_delay as the last counted failure
                                  \* computed it
     slept |-> [tv_sec |-> 0, tv_nsec |-> 0, ret |-> 0],
                                  \* the last nanosleep(): timespec and result
     nsleep |-> 0,                \* nanosleep() calls
     exited |-> FALSE,            \* dropbear_exit() was called
     exitmsg |-> NULL]

\* dropbear_exit(): the connection's process ends
dropbear_exit(s, msg) == [s EXCEPT !.exited = TRUE, !.exitmsg = msg]

PKT_BANNER == [type |-> "SSH_MSG_USERAUTH_BANNER"]
PKT_SUCCESS == [type |-> "SSH_MSG_USERAUTH_SUCCESS"]
PKT_FAILURE(methods, partial) ==
    [type |-> "SSH_MSG_USERAUTH_FAILURE", methods |-> methods, partial |-> partial]

\* encrypt_packet(): the packet is framed and queued; the delayed-zlib
\* mode reads ses.authstate.authdone while it frames
encrypt_packet(s, pkt) ==
    [s EXCEPT !.sent = Append(@, pkt),
              !.framed = Append(@, s.authstate.authdone)]

send_msg_userauth_banner(s) == encrypt_packet(s, PKT_BANNER)

\* fill_passwd(): copy the passwd entry of the C string into the authstate;
\* nothing is stored when the account does not exist
fill_passwd(s, username) ==
    LET pw == getpwnam(CString(username))
    IN  IF pw = NoAccount
        THEN [s EXCEPT !.authstate.pw_name = NULLSTR, !.authstate.pw_shell = NULL]
        ELSE [s EXCEPT !.authstate.pw_name = pw.pw_name,
                       !.authstate.pw_uid = pw.pw_uid,
                       !.authstate.pw_gid = pw.pw_gid,
                       !.authstate.pw_shell = pw.pw_shell]

\* getgrouplist(3) with room for ngroups entries: ret < 0 when the user is
\* in more groups than that; *ngroups is set to the number of groups
getgrouplist(username, ngroups) ==
    LET n == Cardinality(getpwnam(username).gids)
    IN  [ret |-> IF n > ngroups THEN -1 ELSE n, ngroups |-> n]

\* a NULL gid_t* where the model holds sets of gids
NULLLIST == {-1}

\* the for loop of check_group_membership: the group list, or NULL
RECURSIVE GroupListLoop(_, _)
GroupListLoop(username, ngroups) ==
    IF ngroups > DROPBEAR_NGROUP_MAX THEN NULLLIST
    ELSE LET r == getgrouplist(username, ngroups)
         IN  IF r.ret >= 0 THEN getpwnam(username).gids
             ELSE GroupListLoop(username, r.ngroups * 2)

\* a check_group_membership that lets a user pass whose group list could
\* not be read
check_group_membership_pass(check_gid, username, user_gid) ==
    LET grouplist == GroupListLoop(username, 32)
    IN  IF grouplist = NULLLIST
        THEN [ret |-> DROPBEAR_SUCCESS, nerr |-> 1]
        ELSE [ret |-> IF check_gid \in grouplist
                      THEN DROPBEAR_SUCCESS ELSE DROPBEAR_FAILURE,
              nerr |-> 0]

\* check_group_membership: [ret, nerr (LOG_ERR lines it logs itself)]
check_group_membership(check_gid, username, user_gid) ==
    LET grouplist == GroupListLoop(username, 32)
    IN  IF grouplist = NULLLIST
        THEN [ret |-> DROPBEAR_FAILURE, nerr |-> 1]
        ELSE [ret |-> IF check_gid \in grouplist
                      THEN DROPBEAR_SUCCESS ELSE DROPBEAR_FAILURE,
              nerr |-> 0]

\* a rejection that logs its reason and forgets the verdict
RejectUser_forget(s, nerr) ==
    [ret |-> DROPBEAR_FAILURE,
     ses |-> [s EXCEPT !.nlog = @ + 1, !.nerr = @ + nerr]]

\* a rejection inside checkusername: one LOG_WARNING line with the reason
\* after nerr LOG_ERR lines of the callee, and the verdict is cached
RejectUser(s, nerr) ==
    [ret |-> DROPBEAR_FAILURE,
     ses |-> [s EXCEPT !.authstate.checkusername_failed = 1,
                       !.nlog = @ + 1, !.nerr = @ + nerr]]

\* the policy checks without the "/bin/sh" default for an empty pw_shell
CheckPolicy_noshdefault(s) ==
    LET a == s.authstate
        grp == check_group_membership(RestrictGid, a.pw_name, a.pw_gid)
    IN  IF a.checkusername_failed = 1
        THEN [ret |-> DROPBEAR_FAILURE, ses |-> s]
        ELSE IF a.pw_name = NULLSTR
        THEN RejectUser(s, 0)
        ELSE IF ~(build.DROPBEAR_SVR_MULTIUSER /\ s.euid = 0) /\ s.euid # a.pw_uid
        THEN RejectUser(s, 0)
        ELSE IF svr_opts.norootlogin /\ a.pw_uid = 0
        THEN RejectUser(s, 0)
        ELSE IF svr_opts.restrict_group # NULL /\ grp.ret = DROPBEAR_FAILURE
        THEN RejectUser(s, grp.nerr)
        ELSE IF a.pw_shell \notin UserShells
        THEN RejectUser(s, 0)
        ELSE [ret |-> DROPBEAR_SUCCESS, ses |-> s]

\* the policy checks of checkusername, after the username is bound
\* (HAVE_GETGROUPLIST is defined: the group restriction is compiled in)
CheckPolicy(s) ==
    LET a == s.authstate
        grp == check_group_membership(RestrictGid, a.pw_name, a.pw_gid)
        usershell == IF a.pw_shell = "" THEN "/bin/sh" ELSE a.pw_shell
    IN  IF a.checkusername_failed = 1
        THEN [ret |-> DROPBEAR_FAILURE, ses |-> s]
        ELSE IF a.pw_name = NULLSTR
        THEN RejectUser(s, 0)
        ELSE IF ~(build.DROPBEAR_SVR_MULTIUSER /\ s.euid = 0) /\ s.euid # a.pw_uid
        THEN RejectUser(s, 0)
        ELSE IF svr_opts.norootlogin /\ a.pw_uid = 0
        THEN RejectUser(s, 0)
        ELSE IF svr_opts.restrict_group # NULL /\ grp.ret = DROPBEAR_FAILURE
        THEN RejectUser(s, grp.nerr)
        ELSE IF usershell \notin UserShells
        THEN RejectUser(s, 0)
        ELSE [ret |-> DROPBEAR_SUCCESS, ses |-> s]

\* a checkusername that never stores the user name it was given
checkusername_nobind(s, username, len) ==
    IF len > MAX_USERNAME_LEN
    THEN [ret |-> DROPBEAR_FAILURE, ses |-> s]
    ELSE IF strlen(username) # len
    THEN [ret |-> NULL,
          ses |-> dropbear_exit(s, "Attempted username with a null byte")]
    ELSE IF s.authstate.username = NULLSTR
    THEN CheckPolicy(fill_passwd(s, username))
    ELSE IF strcmp(username, s.authstate.username) # 0
    THEN [ret |-> NULL,
          ses |-> dropbear_exit(s, "Client trying multiple usernames")]
    ELSE CheckPolicy(s)

\* checkusername: [ret, ses]; ses.exited when dropbear_exit was called
checkusername(s, username, len) ==
    IF len > MAX_USERNAME_LEN
    THEN [ret |-> DROPBEAR_FAILURE, ses |-> s]
    ELSE IF strlen(username) # len
    THEN [ret |-> NULL,
          ses |-> dropbear_exit(s, "Attempted username with a null byte")]
    ELSE IF s.authstate.username = NULLSTR
    THEN CheckPolicy([fill_passwd(s, username)
                        EXCEPT !.authstate.username = CString(username)])
    ELSE IF strcmp(username, s.authstate.username) # 0
    THEN [ret |-> NULL,
          ses |-> dropbear_exit(s, "Client trying multiple usernames")]
    ELSE CheckPolicy(s)

\* a send_msg_userauth_success that flips authdone instead of setting it
send_msg_userauth_success_flip(s) ==
    LET queued == encrypt_packet(s, PKT_SUCCESS)
        done == [queued EXCEPT !.authstate.authdone = 1 - @, !.connect_time = 0]
        priv == IF done.authstate.pw_uid = 0
                THEN [done EXCEPT !.allowprivport = 1]
                ELSE done
    IN  [priv EXCEPT !.childpipe = "closed", !.nclose = @ + 1]

\* send_msg_userauth_success: the packet goes out, then authdone is set
send_msg_userauth_success(s) ==
    LET queued == encrypt_packet(s, PKT_SUCCESS)
        done == [queued EXCEPT !.authstate.authdone = 1, !.connect_time = 0]
        priv == IF done.authstate.pw_uid = 0
                THEN [done EXCEPT !.allowprivport = 1]
                ELSE done
    IN  [priv EXCEPT !.childpipe = "closed", !.nclose = @ + 1]

\* a typebuf that puts the comma after "publickey" without looking whether
\* "password" follows
typebuf_comma(authtypes) ==
    (IF AUTH_TYPE_PUBKEY \in authtypes
     THEN <<AUTH_METHOD_PUBKEY, ",">>
     ELSE <<>>)
    \o (IF AUTH_TYPE_PASSWORD \in authtypes THEN <<AUTH_METHOD_PASSWORD>> ELSE <<>>)

\* the comma-joined list of allowed types put into typebuf
typebuf(authtypes) ==
    (IF AUTH_TYPE_PUBKEY \in authtypes
     THEN <<AUTH_METHOD_PUBKEY>>
          \o (IF AUTH_TYPE_PASSWORD \in authtypes THEN <<",">> ELSE <<>>)
     ELSE <<>>)
    \o (IF AUTH_TYPE_PASSWORD \in authtypes THEN <<AUTH_METHOD_PASSWORD>> ELSE <<>>)

\* C's % on signed operands truncates toward zero
CRem(a, b) == IF a >= 0 THEN a % b ELSE -((-a) % b)

\* 2^32 mod v, computed without leaving 32 bits
Pow2_32_Mod(v) == (2 * (((2147483647 % v) + 1) % v)) % v

\* rand_delay % vardelay for a long and an unsigned int: with a 64-bit long
\* the unsigned int is converted to long; with a 32-bit long both operands
\* are converted to unsigned long
RandRem(rnd, v) ==
    IF build.LP64 THEN CRem(rnd, v)
    ELSE IF rnd >= 0 THEN rnd % v
    ELSE ((rnd % v) + Pow2_32_Mod(v)) % v

\* delay = now - auth_starttime, with the carry
Elapsed(now, start) ==
    LET sec == now.tv_sec - start.tv_sec
        nsec == now.tv_nsec - start.tv_nsec
    IN  IF nsec < 0
        THEN [tv_sec |-> sec - 1, tv_nsec |-> nsec + 1000000000]
        ELSE [tv_sec |-> sec, tv_nsec |-> nsec]

\* nanosleep(2) sleeps only for a valid timespec (else EINVAL, no sleep)
nanosleep(s, delay) ==
    IF delay.tv_sec >= 0 /\ delay.tv_nsec >= 0 /\ delay.tv_nsec <= 999999999
    THEN [s EXCEPT !.slept = [tv_sec |-> delay.tv_sec,
                              tv_nsec |-> delay.tv_nsec, ret |-> 0],
                   !.nsleep = @ + 1]
    ELSE [s EXCEPT !.slept = [tv_sec |-> 0, tv_nsec |-> 0, ret |-> -1],
                   !.nsleep = @ + 1]

\* the incrfail branch of send_msg_userauth_failure (part_000)
DelayAndCount(s, now, rnd) ==
    LET delay == Elapsed(now, s.authstate.auth_starttime)
        rand_delay == mindelay + RandRem(rnd, vardelay)
        todo == IF delay.tv_sec = 0 /\ delay.tv_nsec <= mindelay
                THEN [tv_sec |-> 0, tv_nsec |-> rand_delay - delay.tv_nsec]
                ELSE [tv_sec |-> 0, tv_nsec |-> rand_delay]
    IN  [nanosleep(s, todo) EXCEPT !.delay = delay,
                                   !.rand_delay = rand_delay,
                                   !.authstate.failcount = @ + 1]

\* a send_msg_userauth_failure that delays and counts without looking at
\* incrfail
send_msg_userauth_failure_always(s, partial, incrfail, now, rnd) ==
    LET pkt == PKT_FAILURE(typebuf(s.authstate.authtypes),
                           IF partial # 0 THEN 1 ELSE 0)
        queued == encrypt_packet(s, pkt)
        counted == DelayAndCount(queued, now, rnd)
    IN  IF counted.authstate.failcount >= svr_opts.maxauthtries
        THEN dropbear_exit(counted, "Max auth tries reached - user '%s'")
        ELSE counted

\* send_msg_userauth_failure of part_000
send_msg_userauth_failure_part000(s, partial, incrfail, now, rnd) ==
    LET pkt == PKT_FAILURE(typebuf(s.authstate.authtypes),
                           IF partial # 0 THEN 1 ELSE 0)
        queued == encrypt_packet(s, pkt)
        counted == IF incrfail # 0 THEN DelayAndCount(queued, now, rnd) ELSE queued
    IN  IF counted.authstate.failcount >= svr_opts.maxauthtries
        THEN dropbear_exit(counted, "Max auth tries reached - user '%s'")
        ELSE counted

\* send_msg_userauth_failure of part_001
send_msg_userauth_failure_part001(s, partial, incrfail, now, rnd) == s

send_msg_userauth_failure(s, partial, incrfail, now, rnd) ==
    IF build.variant = "part_000"
    THEN send_msg_userauth_failure_part000(s, partial, incrfail, now, rnd)
    ELSE send_msg_userauth_failure_part001(s, partial, incrfail, now, rnd)

\* recv_msg_userauth_request of part_000
recv_msg_userauth_request_part000(s, p) ==
    IF s.authstate.authdone = 1 THEN s
    ELSE
      LET b == IF s.banner
               THEN [send_msg_userauth_banner(s) EXCEPT !.banner = FALSE]
               ELSE s
      IN  IF servicelen(p) # SSH_SERVICE_CONNECTION_LEN
             /\ strncmp(p.servicename, SSH_SERVICE_CONNECTION,
                        SSH_SERVICE_CONNECTION_LEN) # 0
          THEN dropbear_exit(b, "unknown service in auth")
          ELSE send_msg_userauth_success(b)

\* recv_msg_userauth_request of part_001
recv_msg_userauth_request_part001(s, p) ==
    send_msg_userauth_success(s)

\* a dispatcher that answers a user the account check rejects with an
\* uncounted failure before looking at anything else
recv_msg_userauth_request_enum(s, p) ==
    LET r == checkusername(s, p.username, userlen(p))
    IN  IF r.ret = DROPBEAR_FAILURE
        THEN send_msg_userauth_failure_part000(r.ses, 0, 0,
                [tv_sec |-> 0, tv_nsec |-> 0], 0)
        ELSE recv_msg_userauth_request_part000(s, p)

recv_msg_userauth_request(s, p) ==
    IF build.variant = "part_000"
    THEN recv_msg_userauth_request_part000(s, p)
    ELSE recv_msg_userauth_request_part001(s, p)

-----------------------------------------------------------------------------
(* One session receiving requests *)

\* (multi-user build, server euid) the server can run as
Euids == {0, 1000}

Init ==
    /\ build \in {b \in Builds : b.LP64}
    /\ svr_opts \in Options
    /\ \E banner \in BOOLEAN, euid \in Euids :
          ses = NewSession(build, svr_opts, banner, euid)
    /\ payload = NoPacket
    /\ nreq = 0
    /\ ncounted = 0
    /\ ses2 = ses
    /\ payload2 = NoPacket
    /\ op = NoOp
    /\ pty = NoPty

\* the packet dispatcher hands a SSH_MSG_USERAUTH_REQUEST, one of the
\* packets in R, to the handler
RecvFrom(R) ==
    /\ ~ses.exited
    /\ nreq < MaxRequests
    /\ \E p \in R :
          /\ payload' = p
          /\ ses' = recv_msg_userauth_request(ses, p)
    /\ nreq' = nreq + 1
    /\ op' = [NoOp EXCEPT !.name = "recv_msg_userauth_request"]
    /\ UNCHANGED <<build, svr_opts, pty, ncounted, ses2, payload2>>

RecvRequest == RecvFrom(Requests)

Next == RecvRequest

Spec == Init /\ [][Next]_vars

-----------------------------------------------------------------------------
(* The failure responder driven directly: the method handlers of the       *)
(* server call send_msg_userauth_failure(partial, incrfail) on a session   *)
(* that is not authenticated.                                              *)

\* calls of send_msg_userauth_failure one session sees
MaxCalls == 4

\* clock readings (CLOCK_MONOTONIC) and random words the calls draw
NowSamples ==
    {[tv_sec |-> 0, tv_nsec |-> 0], [tv_sec |-> 0, tv_nsec |-> 250000000],
     [tv_sec |-> 0, tv_nsec |-> 250000001], [tv_sec |-> 1, tv_nsec |-> 5]}
RandSamples == {-199999999, 0, 99999999, 2000000000}

InitResponder ==
    /\ build \in {b \in Builds : b.DROPBEAR_SVR_MULTIUSER}
    /\ svr_opts \in {o \in Options : ~o.norootlogin /\ o.restrict_group = NULL}
    /\ ses = NewSession(build, svr_opts, FALSE, 0)
    /\ payload = NoPacket
    /\ nreq = 0
    /\ ncounted = 0
    /\ ses2 = ses
    /\ payload2 = NoPacket
    /\ op = NoOp
    /\ pty = NoPty

CallFailure ==
    /\ ~ses.exited
    /\ nreq < MaxCalls
    /\ \E partial \in {0, 1}, incrfail \in {0, 1},
          now \in NowSamples, rnd \in RandSamples :
          /\ ses' = send_msg_userauth_failure(ses, partial, incrfail, now, rnd)
          /\ ncounted' = ncounted + incrfail
          /\ op' = [NoOp EXCEPT !.name = "send_msg_userauth_failure",
                                !.partial = partial, !.incrfail = incrfail]
    /\ nreq' = nreq + 1
    /\ UNCHANGED <<build, svr_opts, pty, payload, ses2, payload2>>

NextResponder == CallFailure

SpecResponder == InitResponder /\ [][NextResponder]_vars

-----------------------------------------------------------------------------
(* Two runs of the same server receiving the same requests, except that run *)
(* 1 names a user the account check rejects and run 2 a user it accepts,    *)
(* with a credential that does not verify.                                  *)

\* what checkusername answers for a user name in session s
AcceptsUser(s, username) ==
    LET r == checkusername(s, username, Len(username))
    IN  ~r.ses.exited /\ r.ret = DROPBEAR_SUCCESS

RejectsUser(s, username) ==
    LET r == checkusername(s, username, Len(username))
    IN  ~r.ses.exited /\ r.ret = DROPBEAR_FAILURE

\* what checkusername answers for the packet's user in session s
ValidatorAccepts(s, p) == AcceptsUser(s, p.username)
ValidatorRejects(s, p) == RejectsUser(s, p.username)

InitPair == Init

PairRequest ==
    /\ ~ses.exited
    /\ ~ses2.exited
    /\ nreq < MaxRequests
    /\ \E u1 \in Usernames, u2 \in Usernames :
          /\ nreq > 0 => u1 = payload.username /\ u2 = payload2.username
          /\ RejectsUser(ses, u1)
          /\ AcceptsUser(ses2, u2)
          /\ \E svc \in ServiceNames, m \in MethodNames :
                LET p1 == [username |-> u1, servicename |-> svc,
                           methodname |-> m, credok |-> FALSE]
                    p2 == [p1 EXCEPT !.username = u2]
                IN  /\ payload' = p1
                    /\ payload2' = p2
                    /\ ses' = recv_msg_userauth_request(ses, p1)
                    /\ ses2' = recv_msg_userauth_request(ses2, p2)
    /\ nreq' = nreq + 1
    /\ op' = [NoOp EXCEPT !.name = "recv_msg_userauth_request"]
    /\ UNCHANGED <<build, svr_opts, pty, ncounted>>

NextPair == PairRequest

SpecPair == InitPair /\ [][NextPair]_vars

-----------------------------------------------------------------------------
(* Properties *)

\* this step handles a request
RequestStep == nreq' = nreq + 1

\* the request names an enabled method
MethodEnabled(s, p) == p.methodname \in s.authstate.authtypes

\* the service name is the connection service, in length and in bytes
ServiceExact(p) == p.servicename = SSH_SERVICE_CONNECTION

\* packets of one type among those sent
NumSent(s, type) == Cardinality({i \in 1..Len(s.sent) : s.sent[i].type = type})

\* the step answered with a counted failure: a failure packet went out,
\* failcount went up by one and the session is still not authenticated
CountedFailureStep ==
    /\ NumSent(ses', "SSH_MSG_USERAUTH_FAILURE")
          = NumSent(ses, "SSH_MSG_USERAUTH_FAILURE") + 1
    /\ NumSent(ses', "SSH_MSG_USERAUTH_SUCCESS")
          = NumSent(ses, "SSH_MSG_USERAUTH_SUCCESS")
    /\ ses'.authstate.failcount = ses.authstate.failcount + 1
    /\ ses'.authstate.authdone = 0

\* C1: authdone becomes 1 only in a step that handles a request whose user
\* checkusername accepts, whose method is enabled and whose credential the
\* verifier of that method accepts.
C1_AuthOnlyWhenVerified ==
    [][(ses.authstate.authdone = 0 /\ ses'.authstate.authdone = 1)
         => /\ RequestStep
            /\ ValidatorAccepts(ses, payload')
            /\ MethodEnabled(ses, payload')
            /\ payload'.credok]_vars

\* C1: a session admitted on its first request although the user does not
\* exist, the method is not enabled and the credential does not verify
C1_Admitted_Unverified ==
    /\ nreq = 1
    /\ ses.authstate.authdone = 1
    /\ payload.username = U_ghost
    /\ ~MethodEnabled(ses, payload)
    /\ ~payload.credok

\* C2: once authdone is 1, handling a request sends nothing and changes no
\* field of the session.
C2_NoOpWhenAuthenticated ==
    [][ses.authstate.authdone = 1 => ses' = ses]_vars

\* C2: the request that was answered with success is replayed and answered
\* with a second success packet
C2_Second_Success ==
    /\ nreq = 2
    /\ NumSent(ses, "SSH_MSG_USERAUTH_SUCCESS") = 2

\* C3: failcount equals the number of counted failures, the connection is
\* closed exactly when that number has reached maxauthtries, and it never
\* exceeds maxauthtries.
C3_FailCountAndLimit ==
    /\ ses.authstate.failcount = ncounted
    /\ ses.exited <=> ncounted >= svr_opts.maxauthtries
    /\ ncounted <= svr_opts.maxauthtries

\* C3: a counted failure that left failcount at 0 and the connection open
\* although maxauthtries is 1
C3_Failure_Not_Counted ==
    /\ ncounted = 1
    /\ svr_opts.maxauthtries = 1
    /\ ses.authstate.failcount = 0
    /\ ~ses.exited

\* C4: after a request for one user that did not verify, a request for a
\* different user closes the connection, with no failure packet and
\* failcount unchanged; the bound user name never changes.
C4_UsernameChangeIsFatal ==
    [][(/\ nreq >= 1
        /\ ~ses.exited
        /\ ~payload.credok
        /\ RequestStep
        /\ payload'.username # payload.username)
         => /\ ses'.exited
            /\ ses'.sent = ses.sent
            /\ ses'.authstate.failcount = ses.authstate.failcount
            /\ ses'.authstate.username = ses.authstate.username]_vars

\* C5: a request handled while not authenticated whose service name is not
\* exactly the connection service (in length and bytes) closes the
\* connection.
C5_ServiceMustMatchExactly ==
    [][(ses.authstate.authdone = 0 /\ RequestStep /\ ~ServiceExact(payload'))
         => ses'.exited]_vars

\* C5: part_000 admitted a request whose service name has the right length
\* but other bytes
C5_Same_Length_Admitted ==
    /\ build.variant = "part_000"
    /\ nreq = 1
    /\ payload.servicename = SVC_same_len_other_bytes
    /\ ~ses.exited
    /\ ses.authstate.authdone = 1

\* C6: a request whose service name mismatches closes the connection with
\* no failure and no success packet sent, failcount unchanged and authdone
\* still 0.
C6_ServiceMismatchSendsNothing ==
    [][(ses.authstate.authdone = 0 /\ RequestStep /\ ~ServiceExact(payload'))
         => /\ ses'.exited
            /\ NumSent(ses', "SSH_MSG_USERAUTH_FAILURE")
                  = NumSent(ses, "SSH_MSG_USERAUTH_FAILURE")
            /\ NumSent(ses', "SSH_MSG_USERAUTH_SUCCESS")
                  = NumSent(ses, "SSH_MSG_USERAUTH_SUCCESS")
            /\ ses'.authstate.failcount = ses.authstate.failcount
            /\ ses'.authstate.authdone = 0]_vars

\* C6: "not-ssh-connection" was answered with success
C6_Wrong_Service_Admitted ==
    /\ nreq = 1
    /\ payload.servicename = SVC_not_ssh_connection
    /\ ses.authstate.authdone = 1
    /\ ses.sent = <<PKT_SUCCESS>>

\* C7: a session not yet authenticated that handles, or has handled, a
\* request whose user checkusername rejects stays unauthenticated.
C7_RejectedUserNeverAdmitted ==
    [][(/\ ses.authstate.authdone = 0
        /\ RequestStep
        /\ \/ ValidatorRejects(ses, payload')
           \/ nreq >= 1 /\ ValidatorRejects(ses, payload))
         => ses'.authstate.authdone = 0]_vars

\* C7: a user with an invalid shell was admitted
C7_Rejected_User_Admitted ==
    /\ nreq = 1
    /\ payload.username = U_carol
    /\ ValidatorRejects(ses, payload)
    /\ ses.authstate.authdone = 1

\* C8: with root login disabled, a request for root with a correct
\* credential (right service, enabled method) is a counted failure.
C8_RootLoginDisabled ==
    [][(/\ ses.authstate.authdone = 0
        /\ RequestStep
        /\ svr_opts.norootlogin
        /\ payload'.username = U_root
        /\ payload'.credok
        /\ ServiceExact(payload')
        /\ MethodEnabled(ses, payload'))
         => CountedFailureStep]_vars

\* C8: root admitted although root login is disabled
C8_Root_Admitted ==
    /\ svr_opts.norootlogin
    /\ nreq = 1
    /\ payload.username = U_root
    /\ payload.credok
    /\ ses.authstate.authdone = 1
    /\ ses.allowprivport = 1

\* C9: a request (right service) naming a method that is not enabled is a
\* counted failure.
C9_DisabledMethodFails ==
    [][(/\ ses.authstate.authdone = 0
        /\ RequestStep
        /\ ServiceExact(payload')
        /\ ~MethodEnabled(ses, payload'))
         => CountedFailureStep]_vars

\* C9: only password is enabled, the request names publickey and is admitted
C9_Disabled_Method_Admitted ==
    /\ ses.authstate.authtypes = {AUTH_TYPE_PASSWORD}
    /\ nreq = 1
    /\ payload.methodname = AUTH_METHOD_PUBKEY
    /\ ses.authstate.authdone = 1

\* C10: two runs that differ only in the user name (rejected by the account
\* check in one, accepted with a wrong credential in the other) have sent
\* the same packets, have the same failcount and are both closed or both
\* open after every request.
C10_RunsIndistinguishable ==
    /\ ses.sent = ses2.sent
    /\ ses.authstate.failcount = ses2.authstate.failcount
    /\ ses.exited = ses2.exited

\* C10: both runs have answered two requests, run 1 for a user that does not
\* exist and run 2 for an existing one
C10_Two_Runs_Answered ==
    /\ nreq = 2
    /\ payload.username = U_ghost
    /\ payload2.username # U_ghost
    /\ ValidatorAccepts(ses2, payload2)
    /\ ses.sent # <<>>

-----------------------------------------------------------------------------
(* The failure delay *)

\* the last call of send_msg_userauth_failure had incrfail set
CountedCall == op.name = "send_msg_userauth_failure" /\ op.incrfail = 1

\* the last nanosleep() slept, for a time that is not negative and that
\* brings the time since auth_starttime up to mindelay at least
SleepCovers(s) ==
    /\ s.slept.ret = 0
    /\ s.slept.tv_sec >= 0
    /\ s.slept.tv_nsec >= 0
    /\ \/ s.delay.tv_sec >= 1
       \/ s.slept.tv_sec >= 1
       \/ s.delay.tv_nsec + s.slept.tv_nsec >= mindelay

\* C11: after every call of send_msg_userauth_failure with incrfail, whatever
\* the elapsed time and the random word, the handler has slept for a time
\* d >= 0 with elapsed + d >= mindelay: the delay is never skipped.
C11_DelayBeforeCounting == CountedCall => SleepCovers(ses)

\* C11: part_000 on a build with a 64-bit long: a counted failure whose
\* nanosleep() was refused with EINVAL (negative tv_nsec), so that the
\* failure was counted with no delay at all
C11_Counted_Without_Sleep ==
    /\ CountedCall
    /\ build.variant = "part_000"
    /\ ses.authstate.failcount >= 1
    /\ ses.slept.ret = -1

-----------------------------------------------------------------------------
(* One session on which requests arrive and on which the method handlers   *)
(* call send_msg_userauth_failure, in any order.                           *)

\* the requests of this specification: an existing and a missing user and a
\* user name with an embedded NUL, the right and a wrong service
OpsRequests ==
    [username: {U_alice, U_ghost, U_nul},
     servicename: {SSH_SERVICE_CONNECTION, SVC_not_ssh_connection},
     methodname: {AUTH_METHOD_PASSWORD}, credok: {FALSE}]

InitOps ==
    /\ build \in {b \in Builds : b.DROPBEAR_SVR_MULTIUSER /\ b.LP64}
    /\ svr_opts \in {o \in Options : /\ ~o.norootlogin /\ ~o.noauthpass
                                     /\ o.restrict_group = NULL}
    /\ \E banner \in BOOLEAN : ses = NewSession(build, svr_opts, banner, 0)
    /\ payload = NoPacket
    /\ nreq = 0
    /\ ncounted = 0
    /\ ses2 = ses
    /\ payload2 = NoPacket
    /\ op = NoOp
    /\ pty = NoPty

RecvOps == RecvFrom(OpsRequests)

NextOps == RecvOps \/ CallFailure

SpecOps == InitOps /\ [][NextOps]_vars

\* C12: once authdone is 1 it stays 1, whatever handler runs next.
C12_AuthdoneIsStable ==
    [][ses.authstate.authdone = 1 => ses'.authstate.authdone = 1]_vars

\* C12: send_msg_userauth_failure ran on a session that had been answered
\* with success, and authdone is still 1
C12_Failure_After_Success ==
    /\ op.name = "send_msg_userauth_failure"
    /\ NumSent(ses, "SSH_MSG_USERAUTH_SUCCESS") >= 1
    /\ ses.authstate.authdone = 1

-----------------------------------------------------------------------------
(* The banner *)

\* svr_opts.banner was set at start-up (ses2 is not stepped by Spec and
\* keeps the session as svr_authinitialise left it)
BannerConfigured == ses2.banner

\* C13: once a request has been handled, the banner has been sent exactly
\* once if one is configured, as the first packet of the session, whatever
\* became of that request; it is not sent again, and never when none is
\* configured.
C13_BannerExactlyOnce ==
    nreq >= 1 =>
        /\ NumSent(ses, "SSH_MSG_USERAUTH_BANNER")
              = (IF BannerConfigured THEN 1 ELSE 0)
        /\ BannerConfigured => ses.sent[1] = PKT_BANNER

\* C13: part_001 answered the first request of a session with a configured
\* banner with success and never sent the banner
C13_Admitted_Without_Banner ==
    /\ nreq = 1
    /\ BannerConfigured
    /\ build.variant = "part_001"
    /\ ses.sent = <<PKT_SUCCESS>>

-----------------------------------------------------------------------------
(* The success packet and authdone *)

\* every success packet was framed by encrypt_packet() while authdone was 0
SuccessFramedPreAuth(s) ==
    \A i \in 1..Len(s.sent) :
        s.sent[i].type = "SSH_MSG_USERAUTH_SUCCESS" => s.framed[i] = 0

\* C14: whenever authdone is 1 a success packet has been queued, and every
\* success packet was framed while authdone was still 0.
C14_SuccessBeforeAuthdone ==
    /\ ses.authstate.authdone = 1
          => NumSent(ses, "SSH_MSG_USERAUTH_SUCCESS") >= 1
    /\ SuccessFramedPreAuth(ses)

\* C14: part_001 answered a replayed request with a second success packet,
\* framed while authdone was already 1
C14_Success_Framed_PostAuth ==
    /\ nreq = 2
    /\ build.variant = "part_001"
    /\ ses.sent = <<PKT_SUCCESS, PKT_SUCCESS>>
    /\ ses.framed = <<0, 1>>

-----------------------------------------------------------------------------
(* Privileged ports *)

\* C15: allowprivport is set only on a session whose authstate holds a
\* resolved account (pw_name) with uid 0; a session admitted with no
\* resolved account or with another uid does not have it set.
C15_PrivPortOnlyForRoot ==
    ses.allowprivport = 1
        => /\ ses.authstate.authdone = 1
           /\ ses.authstate.pw_name # NULLSTR
           /\ ses.authstate.pw_uid = 0

\* C15: a request for alice (uid 1000) was admitted with no account resolved
\* and the session may forward privileged ports
C15_PrivPort_For_Unresolved ==
    /\ nreq = 1
    /\ payload.username = U_alice
    /\ ses.authstate.authdone = 1
    /\ ses.authstate.pw_name = NULLSTR
    /\ ses.allowprivport = 1

-----------------------------------------------------------------------------
(* The failure packet *)

\* the name-list of the methods that can continue, comma-joined, for each
\* of the four sets of enabled methods
MethodNameList(authtypes) ==
    CASE authtypes = {AUTH_TYPE_PUBKEY, AUTH_TYPE_PASSWORD}
            -> <<"publickey", ",", "password">>
      [] authtypes = {AUTH_TYPE_PUBKEY}   -> <<"publickey">>
      [] authtypes = {AUTH_TYPE_PASSWORD} -> <<"password">>
      [] authtypes = {}                   -> <<>>

\* C16: every failure packet carries exactly the enabled methods, comma-
\* joined, publickey before password, with no leading or trailing comma,
\* followed by the partial flag as 0 or 1 (the one just sent: as the caller
\* gave it).
C16_FailureListsEnabledMethods ==
    /\ \A i \in 1..Len(ses.sent) :
          ses.sent[i].type = "SSH_MSG_USERAUTH_FAILURE"
             => /\ ses.sent[i].methods = MethodNameList(ses.authstate.authtypes)
                /\ ses.sent[i].partial \in {0, 1}
    /\ (op.name = "send_msg_userauth_failure" /\ Len(ses.sent) > 0)
          => ses.sent[Len(ses.sent)].partial = op.partial

\* C16: with both methods enabled a failure packet "publickey,password"
\* with the partial flag set went out
C16_Both_Methods_Listed ==
    /\ ses.authstate.authtypes = {AUTH_TYPE_PUBKEY, AUTH_TYPE_PASSWORD}
    /\ op.name = "send_msg_userauth_failure"
    /\ op.partial = 1
    /\ Len(ses.sent) > 0
    /\ ses.sent[Len(ses.sent)]
          = PKT_FAILURE(<<"publickey", ",", "password">>, 1)

-----------------------------------------------------------------------------
(* User names with an embedded NUL *)

\* this step handled a request on a session that was not authenticated
PreAuthRequestStep ==
    /\ nreq' = nreq + 1
    /\ op'.name = "recv_msg_userauth_request"
    /\ ses.authstate.authdone = 0

\* C17: a request whose user name holds a NUL before its declared length
\* closes the connection, with no failure packet and failcount unchanged.
C17_NulUsernameIsFatal ==
    [][(PreAuthRequestStep /\ strlen(payload'.username) # userlen(payload'))
         => /\ ses'.exited
            /\ NumSent(ses', "SSH_MSG_USERAUTH_FAILURE")
                  = NumSent(ses, "SSH_MSG_USERAUTH_FAILURE")
            /\ ses'.authstate.failcount = ses.authstate.failcount]_vars

\* C17: a first request for "al\0ce" was answered with success and the
\* connection is open
C17_Nul_Username_Admitted ==
    /\ op.name = "recv_msg_userauth_request"
    /\ payload.username = U_nul
    /\ ses.authstate.authdone = 1
    /\ NumSent(ses, "SSH_MSG_USERAUTH_SUCCESS") = 1
    /\ ~ses.exited

-----------------------------------------------------------------------------
(* checkusername driven directly: the request handler of the server calls  *)
(* checkusername(username, userlen) with the user name of each request.    *)

\* calls of checkusername one session sees
MaxChecks == 3

\* user names the calls bring: the accounts, a missing user, a member of
\* more groups than DROPBEAR_NGROUP_MAX, and names with a NUL or too long
ValidatorNames == Usernames \cup {U_dave, U_nul, U_long, U_long_nul}

InitValidator ==
    /\ build \in {b \in Builds : /\ b.variant = "part_001" /\ b.LP64
                                /\ b.DROPBEAR_SVR_PUBKEY_AUTH}
    /\ svr_opts \in {o \in Options : o.maxauthtries = MaxTries /\ ~o.noauthpass}
    /\ \E euid \in Euids : ses = NewSession(build, svr_opts, FALSE, euid)
    /\ payload = NoPacket
    /\ nreq = 0
    /\ ncounted = 0
    /\ ses2 = ses
    /\ payload2 = NoPacket
    /\ op = NoOp
    /\ pty = NoPty

CallCheckUsername ==
    /\ ~ses.exited
    /\ nreq < MaxChecks
    /\ \E username \in ValidatorNames :
          LET r == checkusername(ses, username, Len(username))
          IN  /\ ses' = r.ses
              /\ op' = [NoOp EXCEPT !.name = "checkusername",
                                    !.username = username, !.ret = r.ret,
                                    !.bound = ses.authstate.username]
    /\ nreq' = nreq + 1
    /\ UNCHANGED <<build, svr_opts, pty, payload, ncounted, ses2, payload2>>

NextValidator == CallCheckUsername

SpecValidator == InitValidator /\ [][NextValidator]_vars

-----------------------------------------------------------------------------
(* Two sessions of one server, interleaved.  Each session is a child       *)
(* process holding the write end of its svr_ses.childpipe; the listener     *)
(* counts a connection as pre-auth for as long as that pipe is open.        *)

InitSlots == InitOps

\* session 1 handles a request
SlotRecv1 ==
    /\ ~ses.exited
    /\ nreq < MaxCalls
    /\ \E p \in OpsRequests :
          /\ payload' = p
          /\ ses' = recv_msg_userauth_request(ses, p)
    /\ nreq' = nreq + 1
    /\ op' = [NoOp EXCEPT !.name = "recv_msg_userauth_request"]
    /\ UNCHANGED <<build, svr_opts, pty, ncounted, ses2, payload2>>

\* session 2 handles a request
SlotRecv2 ==
    /\ ~ses2.exited
    /\ nreq < MaxCalls
    /\ \E p \in OpsRequests :
          /\ payload2' = p
          /\ ses2' = recv_msg_userauth_request(ses2, p)
    /\ nreq' = nreq + 1
    /\ op' = [NoOp EXCEPT !.name = "recv_msg_userauth_request"]
    /\ UNCHANGED <<build, svr_opts, pty, ncounted, ses, payload>>

\* the peer of session 1 goes away: the process ends
SlotExit1 ==
    /\ ~ses.exited
    /\ ses' = dropbear_exit(ses, "Exited normally")
    /\ op' = [NoOp EXCEPT !.name = "dropbear_exit"]
    /\ UNCHANGED <<build, svr_opts, pty, ncounted, payload, nreq, ses2, payload2>>

\* the peer of session 2 goes away: the process ends
SlotExit2 ==
    /\ ~ses2.exited
    /\ ses2' = dropbear_exit(ses2, "Exited normally")
    /\ op' = [NoOp EXCEPT !.name = "dropbear_exit"]
    /\ UNCHANGED <<build, svr_opts, pty, ncounted, payload, nreq, ses, payload2>>

NextSlots == SlotRecv1 \/ SlotRecv2 \/ SlotExit1 \/ SlotExit2

SpecSlots == InitSlots /\ [][NextSlots]_vars

\* the session's end of the pipe is open: its pre-auth slot is occupied
SlotOccupied(s) == s.childpipe = "open" /\ ~s.exited

\* times the session gave its slot back: m_close(svr_ses.childpipe) calls,
\* and the end of the process while the pipe was open
Releases(s) == s.nclose + (IF s.exited /\ s.childpipe = "open" THEN 1 ELSE 0)

OccupiedSlots == Cardinality({i \in {1, 2} : SlotOccupied(IF i = 1 THEN ses ELSE ses2)})

LiveUnauthenticated ==
    Cardinality({i \in {1, 2} :
        LET s == IF i = 1 THEN ses ELSE ses2
        IN  ~s.exited /\ s.authstate.authdone = 0})

\* C18: no session gives its slot back more than once, a session that is
\* authenticated or gone has given it back exactly once, and the number of
\* occupied slots is the number of live sessions that are not authenticated.
C18_SlotReleasedOnce ==
    /\ \A s \in {ses, ses2} :
          /\ Releases(s) <= 1
          /\ (s.exited \/ s.authstate.authdone = 1) => Releases(s) = 1
    /\ OccupiedSlots = LiveUnauthenticated
    /\ OccupiedSlots >= 0

\* C18: part_001: one session called m_close(svr_ses.childpipe) twice while
\* the other session is live and not authenticated
C18_Slot_Released_Twice ==
    /\ build.variant = "part_001"
    /\ ses.nclose = 2
    /\ ~ses2.exited
    /\ ses2.authstate.authdone = 0

\* this step is a call of checkusername on a session with no user name bound
FirstCheckStep ==
    /\ nreq' = nreq + 1
    /\ op'.name = "checkusername"
    /\ ses.authstate.username = NULLSTR

\* a user name of admissible length with no NUL in it
AdmissibleName(username) ==
    Len(username) <= MAX_USERNAME_LEN /\ strlen(username) = Len(username)

\* the shell the account logs in with
LoginShell(pw) == IF pw.pw_shell = "" THEN "/bin/sh" ELSE pw.pw_shell

\* the account conditions, with "single-account mode" read as a build
\* without DROPBEAR_SVR_MULTIUSER
PolicyByBuild(username) ==
    LET pw == getpwnam(username)
    IN  /\ pw # NoAccount
        /\ ~build.DROPBEAR_SVR_MULTIUSER => pw.pw_uid = ses.euid
        /\ svr_opts.norootlogin => pw.pw_uid # 0
        /\ svr_opts.restrict_group # NULL => RestrictGid \in pw.gids
        /\ LoginShell(pw) \in UserShells

\* the account conditions, with the uid restriction lifted only for a
\* multi-user build that runs as root, and a group list that could be read
PolicyByBuildAndEuid(username) ==
    LET pw == getpwnam(username)
    IN  /\ pw # NoAccount
        /\ ~(build.DROPBEAR_SVR_MULTIUSER /\ ses.euid = 0) => pw.pw_uid = ses.euid
        /\ svr_opts.norootlogin => pw.pw_uid # 0
        /\ svr_opts.restrict_group # NULL
              => /\ GroupListLoop(username, 32) # NULLLIST
                 /\ RestrictGid \in pw.gids
        /\ LoginShell(pw) \in UserShells

\* C19 (as stated): on a first request with an admissible user name,
\* checkusername returns DROPBEAR_SUCCESS exactly when the account exists,
\* its uid is the server's unless the build is multi-user, it is not root
\* when root logins are disabled, it is in the restricted group when one is
\* configured, and its shell (or /bin/sh) is a valid login shell.
C19_AcceptedIffPolicy_AsStated ==
    [][(FirstCheckStep /\ AdmissibleName(op'.username))
         => (op'.ret = DROPBEAR_SUCCESS <=> PolicyByBuild(op'.username))]_vars

\* C19 (amended): the same, where the uid must be the server's unless the
\* build is multi-user and the server runs as root, and where the restricted
\* group needs a group list that could be retrieved and that includes it.
C19_AcceptedIffPolicy ==
    [][(FirstCheckStep /\ AdmissibleName(op'.username))
         => (op'.ret = DROPBEAR_SUCCESS
               <=> PolicyByBuildAndEuid(op'.username))]_vars

\* C19: a multi-user build running as uid 1000 rejected bob (uid 1001), whom
\* no other condition excludes
C19_MultiUser_NonRoot_Rejects ==
    /\ nreq = 1
    /\ op.name = "checkusername"
    /\ op.username = U_bob
    /\ op.ret = DROPBEAR_FAILURE
    /\ build.DROPBEAR_SVR_MULTIUSER
    /\ ses.euid = 1000
    /\ ~svr_opts.norootlogin
    /\ svr_opts.restrict_group = NULL

\* this step is a call of checkusername for the user name the session is
\* bound to, after a rejection reason was logged
RepeatedCheckStep ==
    /\ nreq' = nreq + 1
    /\ op'.name = "checkusername"
    /\ op'.username = ses.authstate.username
    /\ ses.nlog >= 1

\* C20: once checkusername has rejected the session's user name and logged
\* the reason, every later call for that user name returns DROPBEAR_FAILURE
\* and leaves the session as it was: no lookup, no check, no log line; a
\* session logs one rejection reason at most.
C20_RejectionIsCached ==
    [][/\ RepeatedCheckStep
          => /\ op'.ret = DROPBEAR_FAILURE
             /\ ses' = ses
       /\ ses'.nlog <= 1]_vars

\* C20: ghost was rejected and the reason logged; a later call for ghost
\* was rejected again and there is still one line in the log
C20_Rejected_Again_From_Cache ==
    /\ op.name = "checkusername"
    /\ op.bound = U_ghost
    /\ op.username = U_ghost
    /\ op.ret = DROPBEAR_FAILURE
    /\ ses.authstate.checkusername_failed = 1
    /\ ses.nlog = 1

-----------------------------------------------------------------------------
(* What a rejection leaves in the authstate *)

\* this step is a call of checkusername
CheckStep == nreq' = nreq + 1 /\ op'.name = "checkusername"

\* the verdict is cached and the session is bound to the name just given
RejectionCachedAndBound ==
    /\ ses'.authstate.checkusername_failed = 1
    /\ ses'.authstate.username = CString(op'.username)

\* C21 (as stated): whenever checkusername returns DROPBEAR_FAILURE, also
\* for a user name longer than MAX_USERNAME_LEN, checkusername_failed is 1
\* afterwards and the session is bound to that user name.
C21_RejectionAlwaysCached_AsStated ==
    [][(CheckStep /\ op'.ret = DROPBEAR_FAILURE) => RejectionCachedAndBound]_vars

\* C21 (amended): whenever checkusername returns DROPBEAR_FAILURE for a user
\* name of at most MAX_USERNAME_LEN bytes, checkusername_failed is 1
\* afterwards and the session is bound to that user name; for a longer name
\* it returns DROPBEAR_FAILURE and leaves the session as it was.
C21_RejectionCachedUnlessTooLong ==
    [][(CheckStep /\ op'.ret = DROPBEAR_FAILURE)
         => IF Len(op'.username) <= MAX_USERNAME_LEN
            THEN RejectionCachedAndBound
            ELSE ses' = ses]_vars

\* C21: a name of MAX_USERNAME_LEN + 1 bytes was rejected on a fresh
\* session: nothing is cached and no user name is bound
C21_TooLong_Not_Cached ==
    /\ op.name = "checkusername"
    /\ op.username = U_long
    /\ op.ret = DROPBEAR_FAILURE
    /\ ses.authstate.checkusername_failed = 0
    /\ ses.authstate.username = NULLSTR

-----------------------------------------------------------------------------
(* A group list that cannot be retrieved *)

\* a first call of checkusername reaches check_group_membership for this
\* user, and the user is in more groups than the function makes room for
GroupLookupFails(username) ==
    LET pw == getpwnam(username)
    IN  /\ AdmissibleName(username)
        /\ pw # NoAccount
        /\ ~(build.DROPBEAR_SVR_MULTIUSER /\ ses.euid = 0) => pw.pw_uid = ses.euid
        /\ svr_opts.norootlogin => pw.pw_uid # 0
        /\ svr_opts.restrict_group # NULL
        /\ Cardinality(pw.gids) > DROPBEAR_NGROUP_MAX

\* C22 (as stated): when the group restriction is configured and the group
\* list of the account cannot be retrieved, the connection is closed; the
\* call returns neither DROPBEAR_SUCCESS nor DROPBEAR_FAILURE.
C22_LookupFailureIsFatal_AsStated ==
    [][(FirstCheckStep /\ GroupLookupFails(op'.username))
         => /\ ses'.exited
            /\ op'.ret \notin {DROPBEAR_SUCCESS, DROPBEAR_FAILURE}]_vars

\* C22 (amended): when the group restriction is configured and the group
\* list of the account cannot be retrieved, the error is logged and the
\* user is never let pass: checkusername rejects the user as it rejects a
\* non-member, with the reason logged and the verdict cached, and the
\* connection stays open.
C22_LookupFailureIsRejection ==
    [][(FirstCheckStep /\ GroupLookupFails(op'.username))
         => /\ op'.ret = DROPBEAR_FAILURE
            /\ ~ses'.exited
            /\ ses'.authstate.checkusername_failed = 1
            /\ ses'.nerr = ses.nerr + 1
            /\ ses'.nlog = ses.nlog + 1]_vars

\* C22: dave, a member of the restricted group among 1100 groups, was
\* rejected after the "Too many groups" error and the connection is open
C22_TooManyGroups_Rejected ==
    /\ op.name = "checkusername"
    /\ op.username = U_dave
    /\ svr_opts.restrict_group # NULL
    /\ op.ret = DROPBEAR_FAILURE
    /\ ses.nerr = 1
    /\ ses.authstate.checkusername_failed = 1
    /\ ~ses.exited

-----------------------------------------------------------------------------
(* The jitter *)

\* C23: whatever random word was drawn, the rand_delay a counted failure
\* computed satisfies mindelay <= rand_delay < mindelay + vardelay.
C23_JitterInRange ==
    ses.authstate.failcount >= 1
        => /\ mindelay <= ses.rand_delay
           /\ ses.rand_delay < mindelay + vardelay

\* C23: part_000 with a 64-bit long drew a negative random word and
\* computed a rand_delay below mindelay
C23_Jitter_Below_Minimum ==
    /\ build.variant = "part_000"
    /\ build.LP64
    /\ CountedCall
    /\ ses.authstate.failcount >= 1
    /\ ses.rand_delay < mindelay

-----------------------------------------------------------------------------
(* Who writes failcount *)

\* this step is a call of send_msg_userauth_failure
FailureCallStep ==
    nreq' = nreq + 1 /\ op'.name = "send_msg_userauth_failure"

\* C24: failcount never decreases; it changes only in a call of
\* send_msg_userauth_failure with incrfail set, by one; a call without
\* incrfail leaves failcount as it was and does not sleep; requests, with
\* their banner, their success and their protocol violations, leave
\* failcount as it was.
C24_OnlyCountedFailureWritesFailcount ==
    [][/\ ses'.authstate.failcount >= ses.authstate.failcount
       /\ ses'.authstate.failcount # ses.authstate.failcount
             => /\ FailureCallStep
                /\ op'.incrfail = 1
                /\ ses'.authstate.failcount = ses.authstate.failcount + 1
       /\ (FailureCallStep /\ op'.incrfail = 0)
             => /\ ses'.authstate.failcount = ses.authstate.failcount
                /\ ses'.nsleep = ses.nsleep
                /\ ses'.slept = ses.slept]_vars

\* C24: after a counted failure, a failure without incrfail went out and
\* failcount is still 1, with one sleep
C24_Uncounted_After_Counted ==
    /\ op.name = "send_msg_userauth_failure"
    /\ op.incrfail = 0
    /\ ncounted = 1
    /\ NumSent(ses, "SSH_MSG_USERAUTH_FAILURE") = 2
    /\ ses.authstate.failcount = 1
    /\ ses.nsleep = 1

-----------------------------------------------------------------------------
(* pty_allocate: the three versions of the repository (src/unnamed/part_002 *)
(* and the two in src/src/sshpty.c), called by a session that asks for a    *)
(* pseudo-terminal.  pty.open is the set of descriptors the process holds.  *)

\* calls of pty_allocate one process makes
MaxPtyCalls == 3

\* no session state is read by pty_allocate
NoSession == "NoSession"

\* the pty_allocate that is compiled, and the platform macros it tests
PtyBuilds ==
    [variant: {"part_002", "sshpty.c:25", "sshpty.c:170"},
     ANDROID: BOOLEAN,          \* __ANDROID__
     USE_DEV_PTMX: BOOLEAN,
     HAVE_OPENPTY: BOOLEAN]

\* the library call that fails during one pty_allocate, if any
PtyFailures ==
    {"none", "open /dev/ptmx", "grantpt", "unlockpt", "ptsname", "open pts",
     "openpty", "ttyname"}

\* open(2) returns the lowest descriptor number that is not in use
LowestFree(open) ==
    CHOOSE n \in 0..Cardinality(open) :
        n \notin open /\ \A m \in 0..(n - 1) : m \in open

\* what a call leaves behind: the return value, the descriptors held, and
\* *ptyfd and *ttyfd (-1 as the caller initialised them)
PtyResult(ret, open, ptyfd, ttyfd) ==
    [ret |-> ret, open |-> open, ptyfd |-> ptyfd, ttyfd |-> ttyfd]

\* the value of pty after a call: its result and the descriptors the
\* process held when the call began
AfterCall(result, before) ==
    [ret |-> result.ret, open |-> result.open, ptyfd |-> result.ptyfd,
     ttyfd |-> result.ttyfd, before |-> before]

\* stdin, stdout and stderr; ret is -1 until pty_allocate has returned
StartPty == AfterCall(PtyResult(-1, {0, 1, 2}, -1, -1), {0, 1, 2})

\* the openpty() branch, the same in both versions of sshpty.c: openpty
\* opens both descriptors or none; a NULL from ttyname returns 0 at once
pty_allocate_openpty(open, fail) ==
    IF fail = "openpty" THEN PtyResult(0, open, -1, -1)
    ELSE LET ptyfd == LowestFree(open)
             ttyfd == LowestFree(open \cup {ptyfd})
             both == open \cup {ptyfd, ttyfd}
         IN  IF fail = "ttyname" THEN PtyResult(0, both, ptyfd, ttyfd)
             ELSE PtyResult(1, both, ptyfd, ttyfd)

\* the /dev/ptmx sequence with close(ptm) on every failure after the open
pty_allocate_ptmx(open, fail) ==
    IF fail = "open /dev/ptmx" THEN PtyResult(0, open, -1, -1)
    ELSE LET ptm == LowestFree(open)
             held == open \cup {ptm}
         IN  IF fail \in {"grantpt", "unlockpt", "ptsname"}
             THEN PtyResult(0, held \ {ptm}, -1, -1)
             ELSE IF fail = "open pts"
             THEN PtyResult(0, held \ {ptm}, ptm, -1)
             ELSE LET ttyfd == LowestFree(held)
                  IN  PtyResult(1, held \cup {ttyfd}, ptm, ttyfd)

\* pty_allocate of part_002: grantpt, unlockpt and ptsname failures return
\* 0 with ptm still open; only a failed open of the slave closes it
pty_allocate_part002(open, fail) ==
    IF fail = "open /dev/ptmx" THEN PtyResult(0, open, -1, -1)
    ELSE LET ptm == LowestFree(open)
             held == open \cup {ptm}
         IN  IF fail \in {"grantpt", "unlockpt", "ptsname"}
             THEN PtyResult(0, held, -1, -1)
             ELSE IF fail = "open pts"
             THEN PtyResult(0, held \ {ptm}, ptm, -1)
             ELSE LET ttyfd == LowestFree(held)
                  IN  PtyResult(1, held \cup {ttyfd}, ptm, ttyfd)

\* pty_allocate of sshpty.c, lines 25-83
pty_allocate_sshpty25(b, open, fail) ==
    IF b.ANDROID THEN pty_allocate_ptmx(open, fail)
    ELSE IF b.HAVE_OPENPTY THEN pty_allocate_openpty(open, fail)
    ELSE PtyResult(0, open, -1, -1)

\* pty_allocate of sshpty.c, lines 170-239
pty_allocate_sshpty170(b, open, fail) ==
    IF b.USE_DEV_PTMX \/ b.ANDROID THEN pty_allocate_ptmx(open, fail)
    ELSE IF b.HAVE_OPENPTY THEN pty_allocate_openpty(open, fail)
    ELSE PtyResult(0, open, -1, -1)

pty_allocate(b, open, fail) ==
    CASE b.variant = "part_002"     -> pty_allocate_part002(open, fail)
      [] b.variant = "sshpty.c:25"  -> pty_allocate_sshpty25(b, open, fail)
      [] b.variant = "sshpty.c:170" -> pty_allocate_sshpty170(b, open, fail)

InitPty ==
    /\ build \in PtyBuilds
    /\ svr_opts = NULL
    /\ ses = NoSession
    /\ payload = NoPacket
    /\ nreq = 0
    /\ ncounted = 0
    /\ ses2 = NoSession
    /\ payload2 = NoPacket
    /\ op = NoOp
    /\ pty = StartPty

\* the session calls pty_allocate(&ptyfd, &ttyfd, namebuf, 64) and keeps
\* what it got
CallPtyAllocate ==
    /\ nreq < MaxPtyCalls
    /\ \E fail \in PtyFailures :
          /\ pty' = AfterCall(pty_allocate(build, pty.open, fail), pty.open)
          /\ op' = [NoOp EXCEPT !.name = "pty_allocate"]
    /\ nreq' = nreq + 1
    /\ UNCHANGED <<build, svr_opts, ses, payload, ncounted, ses2, payload2>>

NextPty == CallPtyAllocate

SpecPty == InitPty /\ [][NextPty]_vars

\* descriptors the last call opened and left open
LeftOpen == pty.open \ pty.before

\* C25: when pty_allocate has returned 0 no descriptor it opened is still
\* open; when it has returned 1 exactly *ptyfd and *ttyfd are, two
\* different descriptors.
C25_NoDescriptorLeftBehind ==
    /\ pty.ret = 0 => LeftOpen = {}
    /\ pty.ret = 1 => /\ LeftOpen = {pty.ptyfd, pty.ttyfd}
                      /\ pty.ptyfd # pty.ttyfd

\* C25: part_002 returned 0 after grantpt, unlockpt or ptsname failed and
\* the master it had opened is still open
C25_Master_Left_Open ==
    /\ build.variant = "part_002"
    /\ op.name = "pty_allocate"
    /\ pty.ret = 0
    /\ Cardinality(LeftOpen) = 1

====
